---- MODULE Spec2Model ----
(***************************************************************************)
(* State-machine model of services/geminiService.ts: the JSON decoder      *)
(* safeJsonParse, the ten exported asynchronous operations, and the remote  *)
(* generative endpoint they await.                                          *)
(*                                                                          *)
(* Texts are sequences of one-character strings, so that the two regular    *)
(* expressions of safeJsonParse and the grammar of JSON.parse act on        *)
(* characters.  JavaScript values are records of one uniform shape.         *)
(***************************************************************************)
EXTENDS Integers, Sequences, FiniteSets, TLC

\* ------------------------------------------------------------------ bounds
\* number of invocations of the module's operations in one behaviour
NumCalls == 2
\* largest number of elements of a JSON array among the generated raw texts
MaxItems == 2
\* largest number of parts of a candidate of an image-edit response
MaxParts == 3

\* largest number of elements of a JSON array of equal elements
MaxCount == 11

\* the item counts the instructions of the list generators ask for
ChatListCount == 5
ChatHistoryMaxCount == 10
CanvasListCount == 6
VaultNodesCount == 8
ZohoIntegrationsCount == 7

Calls == 1..NumCalls

\* ------------------------------------------------------ JavaScript values
JsVal(t, s, n, items) == [t |-> t, s |-> s, n |-> n, items |-> items]
Undefined == JsVal("undefined", <<>>, 0, <<>>)
Null == JsVal("null", <<>>, 0, <<>>)
True == JsVal("true", <<>>, 0, <<>>)
False == JsVal("false", <<>>, 0, <<>>)
Str(s) == JsVal("string", s, 0, <<>>)
Num(n) == JsVal("number", <<>>, n, <<>>)
Arr(items) == JsVal("array", <<>>, 0, items)
\* an object is the sequence key1, value1, key2, value2, ... in text order
Obj(items) == JsVal("object", <<>>, 0, items)

\* ------------------------------------------------------------ characters
NL == "\n"
\* the backtick character (a string literal cannot hold it)
BT == "BACKTICK"
QT == "\""
Digits == {"0", "1", "2", "3", "4", "5", "6", "7", "8", "9"}
DigitVal(ch) ==
  CASE ch = "0" -> 0 [] ch = "1" -> 1 [] ch = "2" -> 2 [] ch = "3" -> 3
    [] ch = "4" -> 4 [] ch = "5" -> 5 [] ch = "6" -> 6 [] ch = "7" -> 7
    [] ch = "8" -> 8 [] ch = "9" -> 9
\* the JSON whitespace characters that occur in the modelled texts
JsonWhitespace == {" ", NL}

\* the characters of a string constant
Chars(str) == [m \in 1..Len(str) |-> SubSeq(str, m, m)]

StartsWith(s, p) == Len(s) >= Len(p) /\ SubSeq(s, 1, Len(p)) = p
EndsWith(s, p) == Len(s) >= Len(p) /\ SubSeq(s, Len(s) - Len(p) + 1, Len(s)) = p

\* ------------------------------------------------------------ JSON.parse
\* Recursive-descent reading of the JSON grammar: literals, integers,
\* strings without escapes, arrays and objects, separated by whitespace.
\* A result is [ok, v, i]: success, the value, the index after the value.
ParseFail == [ok |-> FALSE, v |-> Undefined, i |-> 0]
ParseOk(v, i) == [ok |-> TRUE, v |-> v, i |-> i]

RECURSIVE SkipWs(_, _)
SkipWs(s, i) ==
  IF i <= Len(s) /\ s[i] \in JsonWhitespace THEN SkipWs(s, i + 1) ELSE i

HasWord(s, i, w) == i + Len(w) - 1 <= Len(s) /\ SubSeq(s, i, i + Len(w) - 1) = w

RECURSIVE ParseDigits(_, _, _)
ParseDigits(s, i, acc) ==
  IF i <= Len(s) /\ s[i] \in Digits
    THEN ParseDigits(s, i + 1, 10 * acc + DigitVal(s[i]))
    ELSE ParseOk(Num(acc), i)

\* -?(0|[1-9][0-9]*) ; fractions and exponents are outside the modelled texts
ParseNumber(s, i) ==
  LET neg == s[i] = "-"
      j == IF neg THEN i + 1 ELSE i
  IN  IF j > Len(s) \/ s[j] \notin Digits THEN ParseFail
      ELSE LET r == IF s[j] = "0" THEN ParseOk(Num(0), j + 1)
                                  ELSE ParseDigits(s, j, 0)
           IN  ParseOk(Num(IF neg THEN 0 - r.v.n ELSE r.v.n), r.i)

\* the characters up to the closing quote; a raw line break ends the parse
RECURSIVE ParseString(_, _, _)
ParseString(s, i, acc) ==
  IF i > Len(s) THEN ParseFail
  ELSE IF s[i] = QT THEN ParseOk(Str(acc), i + 1)
  ELSE IF s[i] = NL \/ s[i] = "\\" THEN ParseFail
  ELSE ParseString(s, i + 1, Append(acc, s[i]))

RECURSIVE ParseValue(_, _)
RECURSIVE ParseElements(_, _, _)
RECURSIVE ParseMembers(_, _, _)

\* after an element, at index j: a comma and more elements, or the bracket
ElementSeparator(s, j, acc) ==
  IF j > Len(s) THEN ParseFail
  ELSE IF s[j] = "," THEN ParseElements(s, SkipWs(s, j + 1), acc)
  ELSE IF s[j] = "]" THEN ParseOk(Arr(acc), j + 1)
  ELSE ParseFail

\* r is the result of parsing one element
AfterElement(s, r, acc) ==
  IF ~r.ok THEN ParseFail
  ELSE ElementSeparator(s, SkipWs(s, r.i), Append(acc, r.v))

\* value (, value)* ]
ParseElements(s, i, acc) == AfterElement(s, ParseValue(s, i), acc)

\* after a member, at index j: a comma and more members, or the brace
MemberSeparator(s, j, acc) ==
  IF j > Len(s) THEN ParseFail
  ELSE IF s[j] = "," THEN ParseMembers(s, SkipWs(s, j + 1), acc)
  ELSE IF s[j] = "}" THEN ParseOk(Obj(acc), j + 1)
  ELSE ParseFail

\* r is the result of parsing the value of a member
AfterMember(s, r, acc) ==
  IF ~r.ok THEN ParseFail
  ELSE MemberSeparator(s, SkipWs(s, r.i), Append(acc, r.v))

\* c is the index where the colon of a member must stand
AfterColon(s, c, acc) ==
  IF c > Len(s) \/ s[c] # ":" THEN ParseFail
  ELSE AfterMember(s, ParseValue(s, SkipWs(s, c + 1)), acc)

\* k is the result of parsing the key of a member
AfterKey(s, k, acc) ==
  IF ~k.ok THEN ParseFail
  ELSE AfterColon(s, SkipWs(s, k.i), Append(acc, k.v))

\* string : value (, string : value)* }
ParseMembers(s, i, acc) ==
  IF i > Len(s) \/ s[i] # QT THEN ParseFail
  ELSE AfterKey(s, ParseString(s, i + 1, <<>>), acc)

\* j is the index of the first non-blank character after the open bracket
ArrayStart(s, j) ==
  IF j <= Len(s) /\ s[j] = "]" THEN ParseOk(Arr(<<>>), j + 1)
  ELSE ParseElements(s, j, <<>>)

\* j is the index of the first non-blank character after the open brace
ObjectStart(s, j) ==
  IF j <= Len(s) /\ s[j] = "}" THEN ParseOk(Obj(<<>>), j + 1)
  ELSE ParseMembers(s, j, <<>>)

\* i is the index of the first character of the value
ParseValue(s, i) ==
  IF i > Len(s) THEN ParseFail
  ELSE IF HasWord(s, i, <<"n", "u", "l", "l">>) THEN ParseOk(Null, i + 4)
  ELSE IF HasWord(s, i, <<"t", "r", "u", "e">>) THEN ParseOk(True, i + 4)
  ELSE IF HasWord(s, i, <<"f", "a", "l", "s", "e">>) THEN ParseOk(False, i + 5)
  ELSE IF s[i] = QT THEN ParseString(s, i + 1, <<>>)
  ELSE IF s[i] = "-" \/ s[i] \in Digits THEN ParseNumber(s, i)
  ELSE IF s[i] = "[" THEN ArrayStart(s, SkipWs(s, i + 1))
  ELSE IF s[i] = "{" THEN ObjectStart(s, SkipWs(s, i + 1))
  ELSE ParseFail

\* r is the result of parsing a value: only whitespace may follow it
WholeText(s, r) ==
  IF r.ok /\ SkipWs(s, r.i) > Len(s) THEN [ok |-> TRUE, v |-> r.v]
  ELSE [ok |-> FALSE, v |-> Undefined]

\* variant: the parse starts at the first brace or bracket of the text
JSONparse_embedded(s) ==
  IF \E i \in 1..Len(s) : s[i] \in {"{", "["}
    THEN WholeText(s, ParseValue(s, CHOOSE i \in 1..Len(s) :
                                      /\ s[i] \in {"{", "["}
                                      /\ \A k \in 1..(i - 1) : s[k] \notin {"{", "["}))
    ELSE WholeText(s, ParseValue(s, SkipWs(s, 1)))

\* JSON.parse(text): one value between optional whitespace, else SyntaxError
JSONparse(s) == WholeText(s, ParseValue(s, SkipWs(s, 1)))

\* ---------------------------------------------------------- safeJsonParse
FenceOpen == <<BT, BT, BT, "j", "s", "o", "n", NL>>
FenceClose == <<NL, BT, BT, BT>>

\* variant: blanks before the opening marker are skipped (a trim before the
\* first replace)
StripOpen_trimmed(s) ==
  IF StartsWith(SubSeq(s, SkipWs(s, 1), Len(s)), FenceOpen)
    THEN SubSeq(s, SkipWs(s, 1) + Len(FenceOpen), Len(s))
    ELSE s

\* variant: the opening marker is removed only when the text also ends with
\* the closing marker
StripOpen_whenClosed(s) ==
  IF StartsWith(s, FenceOpen) /\ EndsWith(s, FenceClose)
    THEN SubSeq(s, Len(FenceOpen) + 1, Len(s))
    ELSE s

\* jsonString.replace(/^BT BT BT json NL/, ''): the first regular expression
StripOpen(s) ==
  IF StartsWith(s, FenceOpen) THEN SubSeq(s, Len(FenceOpen) + 1, Len(s)) ELSE s

\* variant: the second regular expression has no line break, /BT BT BT$/
StripClose_bare(s) ==
  IF EndsWith(s, <<BT, BT, BT>>) THEN SubSeq(s, 1, Len(s) - Len(<<BT, BT, BT>>)) ELSE s

\* variant: the second replace is missing
StripClose_missing(s) == s

\* .replace(/NL BT BT BT$/, ''): the second regular expression
StripClose(s) ==
  IF EndsWith(s, FenceClose) THEN SubSeq(s, 1, Len(s) - Len(FenceClose)) ELSE s

\* one console.error call of the catch block
Diagnostic(error, jsonString) == [error |-> error, original |-> jsonString]

\* variant: the catch block logs and rethrows
safeJsonParse_rethrow(jsonString, console) ==
  IF jsonString.t # "string"
    THEN [console |-> Append(console, Diagnostic("TypeError", jsonString)),
          threw |-> TRUE, ret |-> Undefined]
    ELSE LET parsed == JSONparse(StripClose(StripOpen(jsonString.s)))
         IN  IF parsed.ok
               THEN [console |-> console, threw |-> FALSE, ret |-> parsed.v]
               ELSE [console |-> Append(console, Diagnostic("SyntaxError", jsonString)),
                     threw |-> TRUE, ret |-> Undefined]

\* variant: the catch block returns null without its console.error
CatchParse_silent(parsed, jsonString, console) ==
  IF parsed.ok
    THEN [console |-> console, threw |-> FALSE, ret |-> parsed.v]
    ELSE [console |-> console, threw |-> FALSE, ret |-> Null]

\* variant: the catch block logs the cleaned string instead of the original
CatchParse_logsCleaned(parsed, jsonString, console) ==
  IF parsed.ok
    THEN [console |-> console, threw |-> FALSE, ret |-> parsed.v]
    ELSE [console |-> Append(console,
                        Diagnostic("SyntaxError", Str(StripClose(StripOpen(jsonString.s))))),
          threw |-> FALSE, ret |-> Null]

\* the end of the try block and the catch block: parsed is the outcome of
\* JSON.parse, a SyntaxError when not ok
CatchParse(parsed, jsonString, console) ==
  IF parsed.ok
    THEN [console |-> console, threw |-> FALSE, ret |-> parsed.v]
    ELSE [console |-> Append(console, Diagnostic("SyntaxError", jsonString)),
          threw |-> FALSE, ret |-> Null]

\* variant: the replace calls stand before the try block, so that the
\* TypeError of a text that is not a string leaves the function
safeJsonParse_replaceOutside(jsonString, console) ==
  IF jsonString.t # "string"
    THEN [console |-> console, threw |-> TRUE, ret |-> Undefined]
    ELSE CatchParse(JSONparse(StripClose(StripOpen(jsonString.s))), jsonString, console)

\* variant: a failure logged by any earlier call makes the decoder give up
safeJsonParse_latched(jsonString, console) ==
  IF console # <<>> THEN [console |-> console, threw |-> FALSE, ret |-> Null]
  ELSE IF jsonString.t # "string"
    THEN [console |-> Append(console, Diagnostic("TypeError", jsonString)),
          threw |-> FALSE, ret |-> Null]
  ELSE CatchParse(JSONparse(StripClose(StripOpen(jsonString.s))), jsonString, console)

\* [console, threw, ret]: the console after the call, whether the call raises
\* and the value returned.  A jsonString that is not a string makes .replace
\* throw a TypeError inside the try block; JSON.parse throws a SyntaxError;
\* the catch block receives both, logs and returns null.
safeJsonParse(jsonString, console) ==
  IF jsonString.t # "string"
    THEN [console |-> Append(console, Diagnostic("TypeError", jsonString)),
          threw |-> FALSE, ret |-> Null]
    ELSE CatchParse(JSONparse(StripClose(StripOpen(jsonString.s))), jsonString, console)

\* ------------------------------------------------- responses of the remote
NoInlineData == [present |-> FALSE, data |-> Undefined, mimeType |-> Undefined]
TextPart(s) == [text |-> Str(s), inlineData |-> NoInlineData]
InlinePart(data, mimeType) ==
  [text |-> Undefined,
   inlineData |-> [present |-> TRUE, data |-> Str(data), mimeType |-> Str(mimeType)]]

\* a candidate whose content or content.parts may be absent
Candidate(hasContent, hasParts, parts) ==
  [hasContent |-> hasContent, hasParts |-> hasParts, parts |-> parts]

\* the promise of the remote call: rejected with a reason, or fulfilled with
\* a response object of which the operations read .text or .candidates
RejectedResponse(reason) ==
  [text |-> Undefined, reason |-> reason, status |-> "rejected",
   hasCandidates |-> FALSE, candidates |-> <<>>]
TextResponse(text) ==
  [text |-> text, reason |-> "", status |-> "fulfilled",
   hasCandidates |-> FALSE, candidates |-> <<>>]
CandidatesResponse(hasCandidates, candidates) ==
  [text |-> Undefined, reason |-> "", status |-> "fulfilled",
   hasCandidates |-> hasCandidates, candidates |-> candidates]
NoResponse == TextResponse(Undefined)

\* --------------------------------------------------- outbound requests
Request(api, model, responseMimeType, responseSchema, responseModalities) ==
  [api |-> api, model |-> model, responseMimeType |-> responseMimeType,
   responseSchema |-> responseSchema, responseModalities |-> responseModalities]

DecoderOps ==
  {"generateUserProfile", "generateChatList", "generateChatHistory",
   "generateCanvasList", "generateVaultNodes", "generateZohoIntegrations"}
TextOps == {"sendChatFulfillment", "analyzeImage", "processTakeoutData"}
Ops == DecoderOps \cup TextOps \cup {"editImage"}

\* the one request each operation builds before its await
RequestOf(o) ==
  CASE o = "sendChatFulfillment" -> Request("chat.sendMessage", "", "", "", <<>>)
    [] o = "analyzeImage" ->
         Request("models.generateContent", "gemini-2.5-flash", "", "", <<>>)
    [] o = "editImage" ->
         Request("models.generateContent", "gemini-2.5-flash-image", "", "", <<"IMAGE">>)
    [] o = "generateUserProfile" ->
         Request("models.generateContent", "gemini-2.5-flash", "application/json", "UserProfile", <<>>)
    [] o = "generateChatList" ->
         Request("models.generateContent", "gemini-2.5-flash", "application/json", "Chat[]", <<>>)
    [] o = "generateChatHistory" ->
         Request("models.generateContent", "gemini-2.5-flash", "application/json", "Message[]", <<>>)
    [] o = "generateCanvasList" ->
         Request("models.generateContent", "gemini-2.5-flash", "application/json", "Canvas[]", <<>>)
    [] o = "generateVaultNodes" ->
         Request("models.generateContent", "gemini-2.5-flash", "application/json", "VaultNode[]", <<>>)
    [] o = "generateZohoIntegrations" ->
         Request("models.generateContent", "gemini-2.5-flash", "application/json", "ZohoIntegration[]", <<>>)
    [] o = "processTakeoutData" ->
         Request("models.generateContent", "gemini-2.5-pro", "application/json", "", <<>>)

\* ------------------------------------------- arguments and what is sent
\* the parameters of the operations; an operation uses those of its signature
Args(imageBase64, mimeType, prompt, chat, message, chatTitle, takeoutData) ==
  [mimeType |-> mimeType, imageBase64 |-> imageBase64, prompt |-> prompt,
   chat |-> chat, message |-> message, chatTitle |-> chatTitle,
   takeoutData |-> takeoutData]
NoArgs == Args("", "", "", "", "", "", "")

\* what a request carries besides its configuration: the message of
\* chat.sendMessage({ message }), the string given as contents (the pieces of
\* a template string, in order), or the parts of contents: { parts: [...] }
Payload(message, contents, parts) ==
  [parts |-> parts, message |-> message, contents |-> contents]

\* variant: the image-edit request carries a fixed instruction text besides
\* the prompt of the caller
PayloadOf_instructed(o, a) ==
  IF o = "editImage"
    THEN Payload("", <<>>,
           <<TextPart(<<"Edit this image as described.">>),
             InlinePart(<<a.imageBase64>>, <<a.mimeType>>), TextPart(<<a.prompt>>)>>)
    ELSE Payload(a.message, <<>>, <<>>)

\* the constant instruction texts are kept by their first sentence
PayloadOf(o, a) ==
  CASE o = "sendChatFulfillment" -> Payload(a.message, <<>>, <<>>)
    [] o = "analyzeImage" ->
         Payload("", <<>>,
           <<TextPart(<<"Describe this image in detail. What is the subject, what is happening, and what is the style?">>),
             InlinePart(<<a.imageBase64>>, <<a.mimeType>>)>>)
    [] o = "editImage" ->
         Payload("", <<>>,
           <<InlinePart(<<a.imageBase64>>, <<a.mimeType>>), TextPart(<<a.prompt>>)>>)
    [] o = "generateUserProfile" ->
         Payload("", <<"Generate a realistic but fake user profile for a Gemini power user.">>, <<>>)
    [] o = "generateChatList" ->
         Payload("", <<"Generate a list of 5 recent chat conversations.">>, <<>>)
    [] o = "generateChatHistory" ->
         Payload("", <<"Generate a realistic chat history for a conversation titled \"",
                       a.chatTitle, "\".">>, <<>>)
    [] o = "generateCanvasList" ->
         Payload("", <<"Generate a list of 6 creative \"canvases\".">>, <<>>)
    [] o = "generateVaultNodes" ->
         Payload("", <<"Based on the following FAA Memory Log, parse the content to generate a list of \"Design Vault\" nodes.">>, <<>>)
    [] o = "generateZohoIntegrations" ->
         Payload("", <<"Generate a list of 7 conceptual Zoho integrations for a master system called \"FAA.Zone\".">>, <<>>)
    [] o = "processTakeoutData" ->
         Payload("", <<"You are an expert data processor. Raw Takeout data: \"\"\"",
                       a.takeoutData, "\"\"\"">>, <<>>)

\* one method call made on a chat session
SendMessage(message) == [message |-> message, method |-> "sendMessage"]
\* variant: the chat send reads the history of the session before it sends
SessionCalls_withHistory(o, a) ==
  IF o = "sendChatFulfillment"
    THEN <<[message |-> "", method |-> "getHistory"], SendMessage(a.message)>>
    ELSE <<>>

\* the method calls an operation makes on the session it was given
SessionCalls(o, a) ==
  IF o = "sendChatFulfillment" THEN <<SendMessage(a.message)>> ELSE <<>>

\* the chat sessions of the caller
Sessions == {"s1", "s2"}

\* the arguments of the invocations: in the specification of the arguments,
\* and the single ones used in the other specifications
ArgsOf(o) ==
  CASE o = "sendChatFulfillment" ->
         {Args("", "", "", c, m, "", "") : c \in Sessions, m \in {"hello", "bye"}}
    [] o = "analyzeImage" ->
         {Args(i, m, "", "", "", "", "") : i \in {"AAAA", "BBBB"}, m \in {"image/png", "image/jpeg"}}
    [] o = "editImage" ->
         {Args(i, m, q, "", "", "", "") : i \in {"AAAA", "BBBB"},
            m \in {"image/png", "image/jpeg"}, q \in {"add a hat", ""}}
    [] o = "generateChatHistory" ->
         {Args("", "", "", "", "", t, "") : t \in {"Trip to Rome", ""}}
    [] o = "processTakeoutData" ->
         {Args("", "", "", "", "", "", d) : d \in {"<html></html>", "[]"}}
    [] OTHER -> {NoArgs}
SampleArgs(o) ==
  CASE o = "sendChatFulfillment" -> {Args("", "", "", "s1", "hello", "", "")}
    [] o = "analyzeImage" -> {Args("AAAA", "image/png", "", "", "", "", "")}
    [] o = "editImage" -> {Args("AAAA", "image/png", "add a hat", "", "", "", "")}
    [] o = "generateChatHistory" -> {Args("", "", "", "", "", "Trip to Rome", "")}
    [] o = "processTakeoutData" -> {Args("", "", "", "", "", "", "<html></html>")}
    [] OTHER -> {NoArgs}
\* the operations that take arguments
ArgOps ==
  {"sendChatFulfillment", "analyzeImage", "editImage", "generateChatHistory",
   "processTakeoutData"}

\* the list generators and the largest number of items their instruction asks for
ListOps == DecoderOps \ {"generateUserProfile"}
RequestedAtMost(o) ==
  CASE o = "generateChatList" -> ChatListCount
    [] o = "generateChatHistory" -> ChatHistoryMaxCount
    [] o = "generateCanvasList" -> CanvasListCount
    [] o = "generateVaultNodes" -> VaultNodesCount
    [] o = "generateZohoIntegrations" -> ZohoIntegrationsCount

\* ------------------------------------------------ declared output shapes
\* a responseSchema: { type, enum, properties, required, items }
Shape(type, enum, properties, required, items) ==
  [items |-> items, type |-> type, enum |-> enum, properties |-> properties,
   required |-> required]
StringT == Shape("STRING", {}, <<>>, {}, <<>>)
EnumT(values) == Shape("STRING", {Chars(w) : w \in values}, <<>>, {}, <<>>)
BooleanT == Shape("BOOLEAN", {}, <<>>, {}, <<>>)
ObjectT(properties, required) ==
  Shape("OBJECT", {}, properties, {Chars(k) : k \in required}, <<>>)
ArrayT(itemShape) == Shape("ARRAY", {}, <<>>, {}, <<itemShape>>)
Property(key, shape) == [key |-> Chars(key), shape |-> shape]

UserProfileSchema ==
  ObjectT(<<Property("name", StringT), Property("email", StringT),
            Property("bio", StringT), Property("avatarUrl", StringT),
            Property("preferences",
              ObjectT(<<Property("theme", EnumT({"dark", "light"})),
                        Property("notifications", BooleanT)>>, {}))>>,
          {"name", "email", "bio", "avatarUrl", "preferences"})

ChatListSchema ==
  ArrayT(ObjectT(<<Property("id", StringT), Property("title", StringT),
                   Property("summary", StringT), Property("lastUpdated", StringT)>>,
                 {"id", "title", "summary", "lastUpdated"}))

ChatHistorySchema ==
  ArrayT(ObjectT(<<Property("id", StringT),
                   Property("sender", EnumT({"user", "gemini"})),
                   Property("content", StringT), Property("timestamp", StringT)>>,
                 {"id", "sender", "content", "timestamp"}))

CanvasListSchema ==
  ArrayT(ObjectT(<<Property("id", StringT), Property("title", StringT),
                   Property("type", EnumT({"Code Project", "Document", "Whiteboard",
                                           "Design Mockup"})),
                   Property("thumbnailUrl", StringT),
                   Property("lastModified", StringT)>>,
                 {"id", "title", "type", "thumbnailUrl", "lastModified"}))

VaultNodesSchema ==
  ArrayT(ObjectT(<<Property("id", StringT), Property("title", StringT),
                   Property("description", StringT),
                   Property("type", EnumT({"Marketing Protocol", "Execution Method",
                                           "Core System", "Signal Protocol",
                                           "Data Layer", "UI Component",
                                           "Security Key"})),
                   Property("status", EnumT({"Active", "Dormant", "Building",
                                             "Locked"}))>>,
                 {"id", "title", "description", "type", "status"}))

ZohoIntegrationsSchema ==
  ArrayT(ObjectT(<<Property("id", StringT), Property("name", StringT),
                   Property("description", StringT),
                   Property("category", EnumT({"CRM", "Finance", "HR", "Marketing",
                                               "Custom App"})),
                   Property("status", EnumT({"Live", "Pending", "Error"})),
                   Property("url", StringT)>>,
                 {"id", "name", "description", "category", "status", "url"}))

\* the responseSchema object behind the name a request carries
SchemaNamed(name) ==
  CASE name = "UserProfile" -> UserProfileSchema
    [] name = "Chat[]" -> ChatListSchema
    [] name = "Message[]" -> ChatHistorySchema
    [] name = "Canvas[]" -> CanvasListSchema
    [] name = "VaultNode[]" -> VaultNodesSchema
    [] name = "ZohoIntegration[]" -> ZohoIntegrationsSchema
SchemaNames ==
  {"UserProfile", "Chat[]", "Message[]", "Canvas[]", "VaultNode[]", "ZohoIntegration[]"}

\* the members of a decoded object: v.items is key1, value1, key2, value2, ...
MemberIndexes(v) == {m \in 1..Len(v.items) : m % 2 = 1}
HasKey(v, key) == \E m \in MemberIndexes(v) : v.items[m].s = key
\* obj[key]: the value of the last member of that key
Member(v, key) ==
  v.items[1 + CHOOSE m \in MemberIndexes(v) :
                /\ v.items[m].s = key
                /\ \A k \in MemberIndexes(v) : v.items[k].s = key => k <= m]

\* v satisfies the shape: its type, its enum, the required keys of an object,
\* and the shape of every declared property that is present
RECURSIVE Conforms(_, _)
Conforms(v, shape) ==
  CASE shape.type = "STRING" ->
         v.t = "string" /\ (shape.enum = {} \/ v.s \in shape.enum)
    [] shape.type = "BOOLEAN" -> v.t \in {"true", "false"}
    [] shape.type = "ARRAY" ->
         v.t = "array" /\ \A m \in 1..Len(v.items) : Conforms(v.items[m], shape.items[1])
    [] shape.type = "OBJECT" ->
         /\ v.t = "object"
         /\ \A k \in shape.required : HasKey(v, k)
         /\ \A m \in 1..Len(shape.properties) :
              HasKey(v, shape.properties[m].key)
                => Conforms(Member(v, shape.properties[m].key), shape.properties[m].shape)

\* ------------------------------------------------ the ten operations
\* The part of an operation after its await, as a function of the settled
\* promise and the console: [error, console, response, outcome, value, sends]
\* (sends: requests issued after the await; response: the response object as
\* the operation leaves it).
Throws(e, response, console) ==
  [error |-> e, console |-> console, response |-> response,
   outcome |-> "threw", value |-> Undefined, sends |-> <<>>]
Returns(v, response, console) ==
  [error |-> "", console |-> console, response |-> response,
   outcome |-> "returned", value |-> v, sends |-> <<>>]

\* return safeJsonParse<T>(response.text), an exception of it passing through
\* d is the result of the call of safeJsonParse
ReturnOf(d, response) ==
  IF d.threw THEN Throws("SyntaxError", response, d.console)
  ELSE Returns(d.ret, response, d.console)

ReturnDecoded(response, console) ==
  ReturnOf(safeJsonParse(response.text, console), response)

\* variant: the reply text is passed through the decoder before it is returned
sendChatFulfillment_decoding(response, console) ==
  IF response.status = "rejected" THEN Throws(response.reason, response, console)
  ELSE ReturnDecoded(response, console)

sendChatFulfillment(response, console) ==
  IF response.status = "rejected" THEN Throws(response.reason, response, console)
  ELSE Returns(response.text, response, console)

analyzeImage(response, console) ==
  IF response.status = "rejected" THEN Throws(response.reason, response, console)
  ELSE Returns(response.text, response, console)

\* variant: the function ends without its return null
RECURSIVE ForOfParts_noNull(_, _)
ForOfParts_noNull(parts, i) ==
  IF i > Len(parts) THEN [ret |-> Undefined, parts |-> parts, visited |-> Len(parts)]
  ELSE IF parts[i].inlineData.present
    THEN [ret |-> parts[i].inlineData.data, parts |-> parts, visited |-> i]
  ELSE ForOfParts_noNull(parts, i + 1)

\* variant: the loop keeps the last inline part instead of returning at the first
ForOfParts_last(parts, i) ==
  LET inl == {k \in i..Len(parts) : parts[k].inlineData.present}
  IN  IF inl = {} THEN [ret |-> Null, parts |-> parts, visited |-> Len(parts)]
      ELSE [ret |-> parts[CHOOSE k \in inl : \A m \in inl : m <= k].inlineData.data,
            parts |-> parts, visited |-> Len(parts)]

\* variant: the loop returns the pair of payload and mime type
RECURSIVE ForOfParts_pair(_, _)
ForOfParts_pair(parts, i) ==
  IF i > Len(parts) THEN [ret |-> Null, parts |-> parts, visited |-> Len(parts)]
  ELSE IF parts[i].inlineData.present
    THEN [ret |-> Arr(<<parts[i].inlineData.data, parts[i].inlineData.mimeType>>),
          parts |-> parts, visited |-> i]
  ELSE ForOfParts_pair(parts, i + 1)

\* variant: the loop takes each part off the list (parts.shift()) as it goes
RECURSIVE ForOfParts_consuming(_, _)
ForOfParts_consuming(parts, i) ==
  IF i > Len(parts) THEN [ret |-> Null, parts |-> <<>>, visited |-> Len(parts)]
  ELSE IF parts[i].inlineData.present
    THEN [ret |-> parts[i].inlineData.data,
          parts |-> SubSeq(parts, i + 1, Len(parts)), visited |-> i]
  ELSE ForOfParts_consuming(parts, i + 1)

\* for (const part of parts) { if (part.inlineData) return part.inlineData.data }
\* return null -- [ret, parts, visited]: the value, the list as the loop
\* leaves it, and the number of parts the loop looked at
RECURSIVE ForOfParts(_, _)
ForOfParts(parts, i) ==
  IF i > Len(parts) THEN [ret |-> Null, parts |-> parts, visited |-> Len(parts)]
  ELSE IF parts[i].inlineData.present
    THEN [ret |-> parts[i].inlineData.data, parts |-> parts, visited |-> i]
  ELSE ForOfParts(parts, i + 1)

\* response.candidates[0].content.parts: a TypeError when candidates is
\* undefined, when it is empty, when content or parts is undefined
PartsReadable(response) ==
  /\ response.hasCandidates
  /\ Len(response.candidates) > 0
  /\ response.candidates[1].hasContent
  /\ response.candidates[1].hasParts

WithParts(response, parts) ==
  [response EXCEPT !.candidates[1].parts = parts]

\* x is the result of the part loop
ReturnExtracted(x, response, console) ==
  Returns(x.ret, WithParts(response, x.parts), console)

\* variant: the loop runs over the parts of all candidates, one after another
RECURSIVE PartsFrom(_, _)
PartsFrom(candidates, m) ==
  IF m > Len(candidates) THEN <<>>
  ELSE candidates[m].parts \o PartsFrom(candidates, m + 1)

editImage_allCandidates(response, console) ==
  IF response.status = "rejected" THEN Throws(response.reason, response, console)
  ELSE IF ~PartsReadable(response) THEN Throws("TypeError", response, console)
  ELSE Returns(ForOfParts(PartsFrom(response.candidates, 1), 1).ret, response, console)

editImage(response, console) ==
  IF response.status = "rejected" THEN Throws(response.reason, response, console)
  ELSE IF ~PartsReadable(response) THEN Throws("TypeError", response, console)
  ELSE ReturnExtracted(ForOfParts(response.candidates[1].parts, 1), response, console)

\* variant: the remote call is wrapped in a try/catch that returns null
generateUserProfile_catches(response, console) ==
  IF response.status = "rejected" THEN Returns(Null, response, console)
  ELSE ReturnDecoded(response, console)

generateUserProfile(response, console) ==
  IF response.status = "rejected" THEN Throws(response.reason, response, console)
  ELSE ReturnDecoded(response, console)

\* variant: the decoded array is cut to the number of items asked for
TakeFirst(k, n) ==
  IF k.value.t = "array" /\ Len(k.value.items) > n
    THEN [k EXCEPT !.value.items = SubSeq(@, 1, n)]
    ELSE k

generateChatList_truncating(response, console) ==
  IF response.status = "rejected" THEN Throws(response.reason, response, console)
  ELSE TakeFirst(ReturnDecoded(response, console), ChatListCount)

\* variant: a null decode makes the operation send its request once more
SendAgainOnNull(k) ==
  IF k.value = Null THEN [k EXCEPT !.sends = <<RequestOf("generateChatList")>>]
  ELSE k

generateChatList_retry(response, console) ==
  IF response.status = "rejected" THEN Throws(response.reason, response, console)
  ELSE SendAgainOnNull(ReturnDecoded(response, console))

generateChatList(response, console) ==
  IF response.status = "rejected" THEN Throws(response.reason, response, console)
  ELSE ReturnDecoded(response, console)

\* variant: the decoded value is checked against the schema, null when it fails
ValidateAgainst(k, schema) ==
  IF k.value # Null /\ ~Conforms(k.value, schema) THEN [k EXCEPT !.value = Null]
  ELSE k

generateChatHistory_validating(response, console) ==
  IF response.status = "rejected" THEN Throws(response.reason, response, console)
  ELSE ValidateAgainst(ReturnDecoded(response, console), ChatHistorySchema)

generateChatHistory(response, console) ==
  IF response.status = "rejected" THEN Throws(response.reason, response, console)
  ELSE ReturnDecoded(response, console)

\* variant: a decoded value that breaks the schema of the canvases becomes null
generateCanvasList_validating(response, console) ==
  IF response.status = "rejected" THEN Throws(response.reason, response, console)
  ELSE ValidateAgainst(ReturnDecoded(response, console), CanvasListSchema)

generateCanvasList(response, console) ==
  IF response.status = "rejected" THEN Throws(response.reason, response, console)
  ELSE ReturnDecoded(response, console)

\* variant: a failure of the remote call is caught and the decoder runs on
\* the text that never arrived
generateVaultNodes_decodesAnyway(response, console) ==
  ReturnDecoded(response, console)

generateVaultNodes(response, console) ==
  IF response.status = "rejected" THEN Throws(response.reason, response, console)
  ELSE ReturnDecoded(response, console)

generateZohoIntegrations(response, console) ==
  IF response.status = "rejected" THEN Throws(response.reason, response, console)
  ELSE ReturnDecoded(response, console)

\* variant: the response text goes through the decoder like in the generators
processTakeoutData_decoding(response, console) ==
  IF response.status = "rejected" THEN Throws(response.reason, response, console)
  ELSE ReturnDecoded(response, console)

processTakeoutData(response, console) ==
  IF response.status = "rejected" THEN Throws(response.reason, response, console)
  ELSE Returns(response.text, response, console)

Continuation(o, response, console) ==
  CASE o = "sendChatFulfillment" -> sendChatFulfillment(response, console)
    [] o = "analyzeImage" -> analyzeImage(response, console)
    [] o = "editImage" -> editImage(response, console)
    [] o = "generateUserProfile" -> generateUserProfile(response, console)
    [] o = "generateChatList" -> generateChatList(response, console)
    [] o = "generateChatHistory" -> generateChatHistory(response, console)
    [] o = "generateCanvasList" -> generateCanvasList(response, console)
    [] o = "generateVaultNodes" -> generateVaultNodes(response, console)
    [] o = "generateZohoIntegrations" -> generateZohoIntegrations(response, console)
    [] o = "processTakeoutData" -> processTakeoutData(response, console)

\* ------------------------------------------------- inputs of the model
\* JSON arrays of up to MaxItems elements, each the number 1 or null
ElementTexts == {<<"1">>, <<"n", "u", "l", "l">>}
RECURSIVE ArrayBodies(_)
ArrayBodies(n) ==
  IF n = 1 THEN ElementTexts
  ELSE {b \o <<",">> \o e : b \in ArrayBodies(n - 1), e \in ElementTexts}
ArrayTexts ==
  {<<"[", "]">>} \cup
  UNION {{<<"[">> \o b \o <<"]">> : b \in ArrayBodies(n)} : n \in 1..MaxItems}

\* texts that are JSON: arrays, scalars, an object, texts with whitespace
ValidInners ==
  ArrayTexts \cup
  {<<"1">>, <<"-", "2", "0">>, <<"n", "u", "l", "l">>, <<"t", "r", "u", "e">>,
   <<QT, "x", QT>>, <<"{", QT, "a", QT, ":", "1", "}">>,
   <<"{", QT, "a", QT, ":", "[", "1", "]", ",", QT, "b", QT, ":", QT, QT, "}">>,
   <<" ", "1">>, <<"1", NL>>, <<"[", "1", ",", " ", "2", "]">>}

\* texts that are not JSON: empty, prose, truncated, prose before or after JSON
InvalidInners ==
  {<<>>, <<"x">>, <<"[", "1", ",">>, <<"[", "1", ",", "]">>,
   <<"{", QT, "a", QT, "}">>, <<"0", "1">>, <<"1", " ", "2">>, <<"n", "u", "l">>,
   <<QT, "x">>, <<"H", "i", " ", "{", QT, "a", QT, ":", "1", "}">>,
   <<"[", "1", "]", "x">>}

\* prose followed by JSON, without markers of its own
Proses == {Chars("Hi "), Chars("Sure! Here's your JSON: ")}
ProseInners == {w \o j : w \in Proses, j \in ValidInners}

\* the text of the JSON array whose elements have the texts es
RECURSIVE JoinElements(_)
JoinElements(es) ==
  IF Len(es) = 0 THEN <<>>
  ELSE IF Len(es) = 1 THEN es[1]
  ELSE es[1] \o <<",">> \o JoinElements(Tail(es))
ArrayTextOf(es) == <<"[">> \o JoinElements(es) \o <<"]">>
\* arrays of up to MaxCount elements, each the number 1: fewer, as many and
\* more elements than any instruction asks for
CountedElements == {[m \in 1..n |-> <<"1">>] : n \in 0..MaxCount}
CountedArrayTexts == {ArrayTextOf(es) : es \in CountedElements}

Inners == ValidInners \cup InvalidInners \cup ProseInners \cup CountedArrayTexts

\* what may stand before and after the inner text
\* what may stand before the opening marker and after the closing marker
Befores == {<<" ">>, <<"x">>}
Afters == {<<NL>>, <<" ">>}
Prefixes ==
  {<<>>, FenceOpen, <<BT, BT, BT, "j", "s", "o", "n">>, <<BT, BT, BT, NL>>}
  \cup {b \o FenceOpen : b \in Befores}
Suffixes ==
  {<<>>, FenceClose, <<BT, BT, BT>>} \cup {FenceClose \o a : a \in Afters}
\* markers in the middle of the text: two fenced blocks, one after the other
TwoBlocks(j) ==
  FenceOpen \o j \o FenceClose \o <<NL>> \o FenceOpen \o j \o FenceClose

\* the values response.text takes in the decoder specification
RawTexts ==
  {Undefined} \cup {Str(p \o j \o q) : p \in Prefixes, j \in Inners, q \in Suffixes}
  \cup {Str(TwoBlocks(j)) : j \in ValidInners}

\* the values response.text takes in the specification of all operations
SampleTexts ==
  {Undefined, Str(<<>>), Str(<<"o", "o", "p", "s">>),
   Str(FenceOpen \o <<"[", "1", "]">> \o FenceClose)}

\* texts the remote forms from a declared shape.  SampleText: every declared
\* property present, a string "x" or the first value of its enum, except that
\* the keys in bad carry the string "other".
Quoted(s) == <<QT>> \o s \o <<QT>>
JoinMembers(head, rest) == IF rest = <<>> THEN head ELSE head \o <<",">> \o rest
RECURSIVE SampleText(_, _)
RECURSIVE MembersText(_, _, _, _)
MembersText(properties, m, omit, bad) ==
  IF m > Len(properties) THEN <<>>
  ELSE IF properties[m].key \in omit THEN MembersText(properties, m + 1, omit, bad)
  ELSE JoinMembers(
         Quoted(properties[m].key) \o <<":">> \o
           (IF properties[m].key \in bad THEN Quoted(Chars("other"))
            ELSE SampleText(properties[m].shape, bad)),
         MembersText(properties, m + 1, omit, bad))
SampleText(shape, bad) ==
  CASE shape.type = "STRING" ->
         Quoted(IF shape.enum = {} THEN <<"x">> ELSE CHOOSE w \in shape.enum : TRUE)
    [] shape.type = "BOOLEAN" -> Chars("true")
    [] shape.type = "ARRAY" -> <<"[">> \o SampleText(shape.items[1], bad) \o <<"]">>
    [] shape.type = "OBJECT" ->
         <<"{">> \o MembersText(shape.properties, 1, {}, bad) \o <<"}">>
\* the object of the shape without the keys in omit
ObjectText(shape, omit, bad) ==
  <<"{">> \o MembersText(shape.properties, 1, omit, bad) \o <<"}">>

ItemShape(schema) == IF schema.type = "ARRAY" THEN schema.items[1] ELSE schema
Wrapped(schema, t) == IF schema.type = "ARRAY" THEN <<"[">> \o t \o <<"]">> ELSE t
\* the keys, nested ones included, whose shape declares an enum
RECURSIVE EnumKeys(_)
EnumKeys(shape) ==
  UNION {IF shape.properties[m].shape.enum # {} THEN {shape.properties[m].key}
         ELSE EnumKeys(shape.properties[m].shape) : m \in 1..Len(shape.properties)}

\* responses that keep to the schema: one object with every property, and
\* for an array schema also the empty array and an array of two objects
ConformingTexts(schema) ==
  {Wrapped(schema, ObjectText(ItemShape(schema), {}, {}))} \cup
  (IF schema.type = "ARRAY"
     THEN {<<"[", "]">>,
           <<"[">> \o ObjectText(ItemShape(schema), {}, {}) \o <<",">> \o
             ObjectText(ItemShape(schema), {}, {}) \o <<"]">>}
     ELSE {})
\* responses that are JSON but break the schema: a required key missing, or
\* a value outside its enum
DefectiveTexts(schema) ==
  {Wrapped(schema, ObjectText(ItemShape(schema), {k}, {})) : k \in ItemShape(schema).required}
  \cup
  {Wrapped(schema, ObjectText(ItemShape(schema), {}, {k})) : k \in EnumKeys(ItemShape(schema))}

\* the values response.text takes in the specification of the shapes
\* responses that are a scalar, where every schema declares an array or an object
ScalarTexts == {<<"1">>, Quoted(<<"x">>), Chars("true")}

ShapedTexts ==
  UNION {ConformingTexts(SchemaNamed(n)) \cup DefectiveTexts(SchemaNamed(n)) : n \in SchemaNames}
  \cup ScalarTexts

PartKinds ==
  {TextPart(<<"Here is the edited image">>), InlinePart(<<"A">>, <<"image/png">>),
   InlinePart(<<"B">>, <<"image/jpeg">>), InlinePart(<<"A">>, <<"image/jpeg">>)}
PartLists == UNION {[1..k -> PartKinds] : k \in 0..MaxParts}

\* responses whose candidates[0].content.parts cannot be read
UnreadableResponses ==
  {CandidatesResponse(FALSE, <<>>), CandidatesResponse(TRUE, <<>>),
   CandidatesResponse(TRUE, <<Candidate(FALSE, FALSE, <<>>)>>),
   CandidatesResponse(TRUE, <<Candidate(TRUE, FALSE, <<>>)>>)}

\* the responses of the image model in the extraction specification
EditResponses ==
  UnreadableResponses \cup
  {CandidatesResponse(TRUE, <<Candidate(TRUE, TRUE, p)>>) : p \in PartLists} \cup
  {CandidatesResponse(TRUE, <<Candidate(TRUE, TRUE, <<k>>), Candidate(TRUE, TRUE, <<m>>)>>) :
     k \in PartKinds, m \in PartKinds}

\* the responses of the image model in the specification of all operations
SampleEditResponses ==
  {CandidatesResponse(TRUE, <<>>),
   CandidatesResponse(TRUE, <<Candidate(TRUE, TRUE, <<>>)>>),
   CandidatesResponse(TRUE, <<Candidate(TRUE, TRUE,
      <<TextPart(<<"Here is the edited image">>), InlinePart(<<"A">>, <<"image/png">>)>>)>>)}

SampleResponses(o) ==
  IF o = "editImage" THEN SampleEditResponses
  ELSE {TextResponse(t) : t \in SampleTexts}

\* ------------------------------------------------------------------ state
VARIABLES
  pc,        \* per invocation: "idle", "awaiting" (suspended at its await), "done"
  op,        \* per invocation: the operation invoked
  reqs,      \* per invocation: the requests it has sent to the remote
  response,  \* per invocation: the settled promise of its remote call
  outcome,   \* per invocation: "pending", "returned" or "threw"
  value,     \* per invocation: the value returned
  error,     \* per invocation: the exception raised
  console,   \* the console.error calls made so far
  second,    \* per invocation: a repeated run of the part loop over its response
  args,      \* per invocation: the arguments the caller passed
  sent,      \* per invocation: the payloads of the requests it has sent
  sessions   \* per chat session: the method calls made on it so far

vars == <<pc, op, reqs, response, outcome, value, error, console, second, args, sent,
          sessions>>

NotRun == [ret |-> Undefined, ran |-> FALSE]

Init ==
  /\ pc = [c \in Calls |-> "idle"]
  /\ op = [c \in Calls |-> "none"]
  /\ reqs = [c \in Calls |-> <<>>]
  /\ response = [c \in Calls |-> NoResponse]
  /\ outcome = [c \in Calls |-> "pending"]
  /\ value = [c \in Calls |-> Undefined]
  /\ error = [c \in Calls |-> ""]
  /\ console = <<>>
  /\ second = [c \in Calls |-> NotRun]
  /\ args = [c \in Calls |-> NoArgs]
  /\ sent = [c \in Calls |-> <<>>]
  /\ sessions = [x \in Sessions |-> <<>>]

\* the caller invokes operation o with the arguments a: the operation builds
\* its request, sends it (on the session, for a chat send) and suspends at its
\* await
Call(c, o, a) ==
  /\ pc[c] = "idle"
  /\ pc' = [pc EXCEPT ![c] = "awaiting"]
  /\ op' = [op EXCEPT ![c] = o]
  /\ reqs' = [reqs EXCEPT ![c] = Append(@, RequestOf(o))]
  /\ args' = [args EXCEPT ![c] = a]
  /\ sent' = [sent EXCEPT ![c] = Append(@, PayloadOf(o, a))]
  /\ sessions' = IF a.chat \in Sessions
                   THEN [sessions EXCEPT ![a.chat] = @ \o SessionCalls(o, a)]
                   ELSE sessions
  /\ UNCHANGED <<response, outcome, value, error, console, second>>

Invoke(c, o) == \E a \in SampleArgs(o) : Call(c, o, a)

\* variant: a null result makes the invocation send its request again and
\* wait once more, keeping the last two requests
Finish_retrying(c, k) ==
  IF k.outcome = "returned" /\ k.value = Null
    THEN /\ reqs' = [reqs EXCEPT ![c] = IF Len(@) < 2 THEN Append(@, RequestOf(op[c]))
                                          ELSE <<RequestOf(op[c])>>]
         /\ UNCHANGED <<pc, op, response, outcome, value, error, console, second, args,
                        sent, sessions>>
    ELSE /\ response' = [response EXCEPT ![c] = k.response]
         /\ outcome' = [outcome EXCEPT ![c] = k.outcome]
         /\ value' = [value EXCEPT ![c] = k.value]
         /\ error' = [error EXCEPT ![c] = k.error]
         /\ console' = k.console
         /\ reqs' = [reqs EXCEPT ![c] = @ \o k.sends]
         /\ pc' = [pc EXCEPT ![c] = "done"]
         /\ UNCHANGED <<op, second, args, sent, sessions>>

\* invocation c ends as k, the result of running its operation from the await
Finish(c, k) ==
  /\ response' = [response EXCEPT ![c] = k.response]
  /\ outcome' = [outcome EXCEPT ![c] = k.outcome]
  /\ value' = [value EXCEPT ![c] = k.value]
  /\ error' = [error EXCEPT ![c] = k.error]
  /\ console' = k.console
  /\ reqs' = [reqs EXCEPT ![c] = @ \o k.sends]
  /\ pc' = [pc EXCEPT ![c] = "done"]
  /\ UNCHANGED <<op, second, args, sent, sessions>>

\* the promise of the remote call settles as r and the operation runs from
\* its await to its end
Settle(c, r) ==
  /\ pc[c] = "awaiting"
  /\ Finish(c, Continuation(op[c], r, console))

\* the remote call completes with a response
Resolve(c) == \E r \in SampleResponses(op[c]) : Settle(c, r)

\* the remote call fails: network, authentication, server error, timeout
Reject(c) == Settle(c, RejectedResponse("TransportFailure"))

Next ==
  \E c \in Calls :
    \/ \E o \in Ops : Invoke(c, o)
    \/ Resolve(c)
    \/ Reject(c)

Spec == Init /\ [][Next]_vars


\* ---------------------------------------------- the decoder on many texts
\* one invocation of a decoding operation, its response text drawn from RawTexts
InvokeDecoder == \E o \in DecoderOps : Invoke(1, o)
ResolveRaw == \E t \in RawTexts : Settle(1, TextResponse(t))
NextDecode == InvokeDecoder \/ ResolveRaw
SpecDecode == Init /\ [][NextDecode]_vars

\* ------------------------------------------- the part loop on many lists
InvokeEdit == Invoke(1, "editImage")
ResolveEdit == \E r \in EditResponses : Settle(1, r)

\* x is the result of the repeated run of the part loop
RunAgain(x) ==
  /\ second' = [second EXCEPT ![1] = [ret |-> x.ret, ran |-> TRUE]]
  /\ response' = [response EXCEPT ![1] = WithParts(@, x.parts)]

\* the part loop of editImage run once more over the response as left by
\* the first run
ExtractAgain ==
  /\ pc[1] = "done"
  /\ op[1] = "editImage"
  /\ outcome[1] = "returned"
  /\ ~second[1].ran
  /\ RunAgain(ForOfParts(response[1].candidates[1].parts, 1))
  /\ UNCHANGED <<pc, op, reqs, outcome, value, error, console, args, sent, sessions>>

NextExtract == InvokeEdit \/ ResolveEdit \/ ExtractAgain
SpecExtract == Init /\ [][NextExtract]_vars

\* --------------------------------------- the decoder on texts of the shapes
ResolveShaped == \E t \in ShapedTexts : Settle(1, TextResponse(Str(t)))
NextShape == InvokeDecoder \/ ResolveShaped
SpecShape == Init /\ [][NextShape]_vars

\* -------------------------------------- the operations on many arguments
\* one response per operation: a fenced text, or a candidate with an image
SampleReply(o) ==
  IF o = "editImage"
    THEN CandidatesResponse(TRUE, <<Candidate(TRUE, TRUE,
           <<TextPart(<<"Here is the edited image">>), InlinePart(<<"A">>, <<"image/png">>)>>)>>)
    ELSE TextResponse(Str(FenceOpen \o <<"[", "1", "]">> \o FenceClose))
InvokeWithArgs == \E c \in Calls : \E o \in ArgOps : \E a \in ArgsOf(o) : Call(c, o, a)
SettleWithArgs == \E c \in Calls : Settle(c, SampleReply(op[c])) \/ Reject(c)
NextArgs == InvokeWithArgs \/ SettleWithArgs
SpecArgs == Init /\ [][NextArgs]_vars

\* ------------------------------------- the remote call always completes
\* two responses per operation: the sample one, and a text that is not JSON
LiveReplies(o) == {SampleReply(o), TextResponse(Str(<<"o", "o", "p", "s">>))}
ResolveLive(c) == \E r \in LiveReplies(op[c]) : Settle(c, r)
NextLive ==
  \E c \in Calls :
    \/ \E o \in Ops : Invoke(c, o)
    \/ ResolveLive(c)
    \/ Reject(c)
\* the remote call of every invocation in flight eventually completes, with a
\* response or with a failure
RemoteCompletes == \A c \in Calls : WF_vars(Reject(c) \/ ResolveLive(c))
SpecLive == Init /\ [][NextLive]_vars /\ RemoteCompletes

\* =================================================================== claims
Done(c) == pc[c] = "done"
Fulfilled(c) == Done(c) /\ response[c].status = "fulfilled"
Decoded(c) == Fulfilled(c) /\ op[c] \in DecoderOps
\* an editImage invocation whose part loop ran over a readable part list
Extracted(c) == Fulfilled(c) /\ op[c] = "editImage" /\ PartsReadable(response[c])
PartsOf(c) == response[c].candidates[1].parts
InlineIndexes(parts) == {k \in 1..Len(parts) : parts[k].inlineData.present}
FirstInline(parts) ==
  parts[CHOOSE k \in InlineIndexes(parts) : \A m \in InlineIndexes(parts) : k <= m].inlineData

\* C1: for every valid JSON text j, a decoding operation whose response text is
\* the opening marker, j, the closing marker returns what decoding j alone returns.
C1_FencedDecodesAsInner ==
  \A c \in Calls : \A j \in ValidInners :
    (Decoded(c) /\ response[c].text = Str(FenceOpen \o j \o FenceClose))
      => /\ outcome[c] = "returned"
         /\ value[c] = safeJsonParse(Str(j), <<>>).ret

C1_Witness ==
  /\ Decoded(1)
  /\ response[1].text = Str(FenceOpen \o <<"[", "1", ",", "n", "u", "l", "l", "]">> \o FenceClose)
  /\ value[1] = Arr(<<Num(1), Null>>)

\* C2: a response text that is not JSON once the markers are stripped, the
\* empty text included, makes the decoder return null; nothing is raised.
C2_NonJsonDecodesToNull ==
  \A c \in Calls :
    (/\ Decoded(c)
     /\ response[c].text.t = "string"
     /\ ~JSONparse(StripClose(StripOpen(response[c].text.s))).ok)
      => /\ outcome[c] = "returned"
         /\ value[c] = Null

C2_Witness ==
  /\ Decoded(1)
  /\ response[1].text = Str(<<>>)
  /\ outcome[1] = "returned"
  /\ value[1] = Null

\* C3: in every operation a failed remote call is not caught: the invocation
\* ends by raising the failure of the remote call and returns nothing, so it
\* is never the null that a decode failure returns.
C3_TransportFailurePropagates ==
  \A c \in Calls :
    (Done(c) /\ response[c].status = "rejected")
      => /\ outcome[c] = "threw"
         /\ error[c] = response[c].reason
         /\ value[c] = Undefined

C3_Witness ==
  \E c \in Calls :
    /\ Done(c)
    /\ op[c] = "generateUserProfile"
    /\ response[c].status = "rejected"
    /\ outcome[c] = "threw"
    /\ error[c] = "TransportFailure"

\* C4: whenever the remote call completes, whatever the response holds, the
\* operation returns a value or null and raises nothing.
C4_CompletedNeverRaises ==
  \A c \in Calls : Fulfilled(c) => outcome[c] = "returned"

\* C5: for every part list without an inline-binary part, the empty list
\* included, the image-edit extraction returns null and raises nothing.
C5_NoBinaryGivesNull ==
  \A c \in Calls :
    (Extracted(c) /\ InlineIndexes(PartsOf(c)) = {})
      => /\ outcome[c] = "returned"
         /\ value[c] = Null

C5_Witness ==
  /\ Extracted(1)
  /\ Len(PartsOf(1)) = 2
  /\ InlineIndexes(PartsOf(1)) = {}
  /\ value[1] = Null
  /\ outcome[1] = "returned"

\* C6: for every part list with an inline-binary part, the image-edit
\* extraction returns the payload of the inline-binary part of lowest index,
\* whatever text parts precede it and whatever parts follow it.
C6_FirstBinaryPayload ==
  \A c \in Calls :
    (Extracted(c) /\ InlineIndexes(PartsOf(c)) # {})
      => /\ outcome[c] = "returned"
         /\ value[c] = FirstInline(PartsOf(c)).data

C6_Witness ==
  /\ Extracted(1)
  /\ PartsOf(1) = <<TextPart(<<"Here is the edited image">>),
                    InlinePart(<<"B">>, <<"image/jpeg">>),
                    InlinePart(<<"A">>, <<"image/png">>)>>
  /\ value[1] = Str(<<"B">>)

\* C7 as stated: when the image-edit response holds an inline-binary part, the
\* result is the pair of the payload and the mime type of the first such part.
C7_ResultCarriesMimeType ==
  \A c \in Calls :
    (Extracted(c) /\ InlineIndexes(PartsOf(c)) # {})
      => value[c] = Arr(<<FirstInline(PartsOf(c)).data, FirstInline(PartsOf(c)).mimeType>>)

\* C7 amended: when the image-edit response holds an inline-binary part, the
\* result is a single string, the payload of the first such part; the mime
\* type is not part of the result.
C7_ResultIsPayloadOnly ==
  \A c \in Calls :
    (Extracted(c) /\ InlineIndexes(PartsOf(c)) # {})
      => /\ value[c].t = "string"
         /\ value[c].s = FirstInline(PartsOf(c)).data.s
         /\ value[c].items = <<>>
         /\ value[c] # FirstInline(PartsOf(c)).mimeType

C7_Witness ==
  /\ Extracted(1)
  /\ PartsOf(1) = <<TextPart(<<"Here is the edited image">>),
                    InlinePart(<<"A">>, <<"image/png">>)>>
  /\ value[1] = Str(<<"A">>)

\* C8: a second run of the image-edit extraction over the same part list
\* returns what the first run returned, and leaves the part list as it was.
C8_ExtractionRepeatable ==
  [][\A c \in Calls :
       (~second[c].ran /\ second'[c].ran)
         => /\ second'[c].ret = value[c]
            /\ response'[c] = response[c]]_vars

C8_Witness ==
  /\ Extracted(1)
  /\ second[1].ran
  /\ PartsOf(1) = <<InlinePart(<<"A">>, <<"image/png">>),
                    InlinePart(<<"B">>, <<"image/jpeg">>)>>
  /\ second[1].ret = Str(<<"A">>)
  /\ value[1] = Str(<<"A">>)

\* C9: every invocation sends exactly one request to the remote, whatever its
\* outcome: none is added after a decode failure, an empty result or a
\* transport failure.
C9_ExactlyOneRequest ==
  \A c \in Calls :
    /\ pc[c] = "idle" => Len(reqs[c]) = 0
    /\ pc[c] # "idle" => reqs[c] = <<RequestOf(op[c])>>

C9_Witness ==
  \E c \in Calls :
    /\ Decoded(c)
    /\ op[c] = "generateChatList"
    /\ value[c] = Null
    /\ Len(console) > 0
    /\ Len(reqs[c]) = 1

\* C10: when the reply to a chat-relay send is the empty string, or carries no
\* text, sendChatFulfillment returns null.
C10_EmptyReplyIsNull ==
  \A c \in Calls :
    (/\ Fulfilled(c)
     /\ op[c] = "sendChatFulfillment"
     /\ response[c].text \in {Undefined, Str(<<>>)})
      => /\ outcome[c] = "returned"
         /\ value[c] = Null

\* C11: for every non-empty reply text, sendChatFulfillment returns exactly that
\* text, neither decoded nor stripped of markers: fenced JSON and malformed
\* JSON come back character for character.
C11_ChatReplyVerbatim ==
  \A c \in Calls :
    (/\ Fulfilled(c)
     /\ op[c] = "sendChatFulfillment"
     /\ response[c].text.t = "string"
     /\ response[c].text.s # <<>>)
      => /\ outcome[c] = "returned"
         /\ value[c] = response[c].text

C11_Witness ==
  \E c \in Calls :
    /\ Fulfilled(c)
    /\ op[c] = "sendChatFulfillment"
    /\ response[c].text = Str(FenceOpen \o <<"[", "1", "]">> \o FenceClose)
    /\ value[c] = Str(FenceOpen \o <<"[", "1", "]">> \o FenceClose)

\* C12: analyzeImage returns null whenever the completed response has empty or
\* absent text, and the response text verbatim otherwise.
C12_DescribeNullOrVerbatim ==
  \A c \in Calls :
    (Fulfilled(c) /\ op[c] = "analyzeImage")
      => /\ outcome[c] = "returned"
         /\ value[c] = IF response[c].text \in {Undefined, Str(<<>>)} THEN Null
                       ELSE response[c].text

\* the step in which invocation c runs from its await to its end
Completes(c) == pc[c] = "awaiting" /\ pc'[c] = "done"
\* the three ways the step can end
EndsDecoded(c) ==
  /\ response'[c].status = "fulfilled"
  /\ response'[c].text.t = "string"
  /\ JSONparse(StripClose(StripOpen(response'[c].text.s))).ok
  /\ outcome'[c] = "returned"
  /\ console' = console
EndsDecodeFailure(c) ==
  /\ response'[c].status = "fulfilled"
  /\ outcome'[c] = "returned"
  /\ value'[c] = Null
  /\ Len(console') = Len(console) + 1
  /\ console'[Len(console')].original = response'[c].text
EndsTransportFailure(c) ==
  /\ response'[c].status = "rejected"
  /\ outcome'[c] = "threw"
  /\ console' = console

\* C13: every completed invocation of a schema-constrained generator ends in
\* exactly one of three ways: a decoded value returned and nothing logged; null
\* returned and one diagnostic logged that carries the raw text; the failure
\* of the remote call raised.
C13_ExactlyOneOutcome ==
  [][\A c \in Calls :
       (Completes(c) /\ op[c] \in DecoderOps)
         => \/ EndsDecoded(c) /\ ~EndsDecodeFailure(c) /\ ~EndsTransportFailure(c)
            \/ ~EndsDecoded(c) /\ EndsDecodeFailure(c) /\ ~EndsTransportFailure(c)
            \/ ~EndsDecoded(c) /\ ~EndsDecodeFailure(c) /\ EndsTransportFailure(c)]_vars

C13_Witness ==
  \E c, d \in Calls :
    /\ Decoded(c)
    /\ response[c].text = Str(<<"o", "o", "p", "s">>)
    /\ value[c] = Null
    /\ console = <<Diagnostic("SyntaxError", Str(<<"o", "o", "p", "s">>))>>
    /\ Done(d)
    /\ op[d] \in DecoderOps
    /\ outcome[d] = "threw"

\* the schema invocation c sent with its request
SentSchema(c) == SchemaNamed(reqs[c][1].responseSchema)
\* a result that is not a failure: returned, and not the null of a decode failure
NonFailure(c) == Decoded(c) /\ outcome[c] = "returned" /\ value[c] # Null

\* C14 as stated: every non-failure result of a schema-constrained generator
\* satisfies the required keys and the enums of the schema it sent.
C14_ResultSatisfiesShape ==
  \A c \in Calls : NonFailure(c) => Conforms(value[c], SentSchema(c))

\* C14 amended: the generators check nothing after the parse.  A response that
\* is JSON is returned as a non-failure result whether or not it keeps to the
\* schema, and the result satisfies the schema exactly when the response did.
C14_ResultAsGoodAsResponse ==
  \A c \in Calls :
    (Decoded(c) /\ response[c].text.s \in ShapedTexts)
      => /\ NonFailure(c)
         /\ Conforms(value[c], SentSchema(c))
              <=> response[c].text.s \in ConformingTexts(SentSchema(c))

C14_Witness ==
  /\ Decoded(1)
  /\ op[1] = "generateChatHistory"
  /\ outcome[1] = "returned"
  /\ value[1] = Arr(<<Obj(<<Str(Chars("id")), Str(<<"x">>),
                            Str(Chars("sender")), Str(Chars("other")),
                            Str(Chars("content")), Str(<<"x">>),
                            Str(Chars("timestamp")), Str(<<"x">>)>>)>>)

\* the seven generation call sites
GenerationOps == DecoderOps \cup {"processTakeoutData"}
FencedOne == Str(FenceOpen \o <<"[", "1", "]">> \o FenceClose)
\* what the decoder makes of each of the sample response texts: the array of
\* the fenced text, null for the absent, the empty and the malformed text
DecodedSample(text) == IF text = FencedOne THEN Arr(<<Num(1)>>) ELSE Null

C16_ProseThenJsonIsNull ==
  \A c \in Calls : \A w \in Proses : \A j \in ValidInners :
    (Decoded(c) /\ response[c].text = Str(w \o j))
      => /\ outcome[c] = "returned"
         /\ value[c] = Null

C16_Witness ==
  /\ Decoded(1)
  /\ response[1].text =
       Str(Chars("Sure! Here's your JSON: ") \o <<"{", QT, "a", QT, ":", "1", "}">>)
  /\ outcome[1] = "returned"
  /\ value[1] = Null

\* the sequences of element texts of the generated arrays
ElementSeqs == UNION {[1..n -> ElementTexts] : n \in 0..MaxItems} \cup CountedElements
ElementValue(e) == IF e = <<"1">> THEN Num(1) ELSE Null

\* C17: when the response text is a JSON array, bare or between the markers, a
\* list generator returns an array of exactly the elements of the text, in
\* the order of the text, whatever their number: fewer or more than the
\* instruction asks for, or none.
C17_ArrayReturnedWhole ==
  \A c \in Calls : \A es \in ElementSeqs :
    (/\ Decoded(c)
     /\ op[c] \in ListOps
     /\ response[c].text \in {Str(ArrayTextOf(es)),
                               Str(FenceOpen \o ArrayTextOf(es) \o FenceClose)})
      => /\ outcome[c] = "returned"
         /\ value[c] = Arr([m \in 1..Len(es) |-> ElementValue(es[m])])

C17_Witness ==
  /\ Decoded(1)
  /\ op[1] = "generateChatList"
  /\ response[1].text = Str(FenceOpen \o ArrayTextOf([m \in 1..(ChatListCount + 1) |-> <<"1">>]) \o FenceClose)
  /\ value[1].t = "array"
  /\ Len(value[1].items) > RequestedAtMost(op[1])

\* what invocation c would end as had it run alone, from an empty console
Alone(c) == Continuation(op[c], response'[c], <<>>)

\* C18: in every interleaving of the invocations in flight, the step in which
\* an invocation completes ends as the invocation would have ended alone, its
\* result a function of its own operation and response; it leaves every
\* other invocation as it was, and the console, the one thing all invocations
\* write, only grows.
C18_NoInterference ==
  [][\A c \in Calls :
       Completes(c)
         => /\ outcome'[c] = Alone(c).outcome
            /\ value'[c] = Alone(c).value
            /\ error'[c] = Alone(c).error
            /\ console' = console \o Alone(c).console
            /\ \A d \in Calls \ {c} :
                 /\ pc'[d] = pc[d]
                 /\ op'[d] = op[d]
                 /\ reqs'[d] = reqs[d]
                 /\ response'[d] = response[d]
                 /\ outcome'[d] = outcome[d]
                 /\ value'[d] = value[d]
                 /\ error'[d] = error[d]]_vars

\* invocation 2 completed first and logged; invocation 1 completed after it
C18_Witness ==
  /\ Decoded(1)
  /\ Decoded(2)
  /\ response[2].text = Str(<<"o", "o", "p", "s">>)
  /\ response[1].text = Undefined
  /\ console = <<Diagnostic("SyntaxError", Str(<<"o", "o", "p", "s">>)),
                 Diagnostic("TypeError", Undefined)>>
  /\ value[1] = Null
  /\ value[2] = Null

\* C19 as stated: for every valid JSON text j, a decoding operation whose
\* response text is j immediately followed by the three backticks returns what
\* decoding j alone returns.
C19_BareTrailingStripped ==
  \A c \in Calls : \A j \in ValidInners :
    (Decoded(c) /\ response[c].text = Str(j \o <<BT, BT, BT>>))
      => /\ outcome[c] = "returned"
         /\ value[c] = safeJsonParse(Str(j), <<>>).ret

\* C19 amended: the three backticks at the end are removed only together with
\* a line break before them.  For every valid JSON text j, the text j
\* immediately followed by the three backticks decodes to null, unless j itself
\* ends with a line break, and then to the value of j.
C19_TrailingNeedsLineBreak ==
  \A c \in Calls : \A j \in ValidInners :
    (Decoded(c) /\ response[c].text = Str(j \o <<BT, BT, BT>>))
      => /\ outcome[c] = "returned"
         /\ value[c] = IF EndsWith(j, <<NL>>) THEN safeJsonParse(Str(j), <<>>).ret
                       ELSE Null

C19_Witness ==
  /\ Decoded(1)
  /\ response[1].text = Str(<<"[", "1", "]", BT, BT, BT>>)
  /\ outcome[1] = "returned"
  /\ value[1] = Null
  /\ console = <<Diagnostic("SyntaxError", Str(<<"[", "1", "]", BT, BT, BT>>))>>

\* C20: each marker is removed whether or not the other is there.  For every
\* valid JSON text j, the text with the opening marker alone and the text
\* with the closing marker alone both decode to what j alone decodes to.
C20_MarkersIndependent ==
  \A c \in Calls : \A j \in ValidInners :
    (Decoded(c) /\ response[c].text \in {Str(FenceOpen \o j), Str(j \o FenceClose)})
      => /\ outcome[c] = "returned"
         /\ value[c] = safeJsonParse(Str(j), <<>>).ret

C20_Witness ==
  /\ Decoded(1)
  /\ response[1].text = Str(FenceOpen \o <<"{", QT, "a", QT, ":", "1", "}">>)
  /\ value[1] = Obj(<<Str(<<"a">>), Num(1)>>)

\* the fenced text of j with something before the opening marker, with
\* something after the closing marker, or with markers in its middle
Misplaced(j) ==
  {b \o FenceOpen \o j \o FenceClose : b \in Befores} \cup
  {FenceOpen \o j \o FenceClose \o a : a \in Afters} \cup
  {TwoBlocks(j)}

\* C21: the markers are removed only at the very start and the very end of the
\* text.  For every valid JSON text j, the fenced text of j with a character
\* before the opening marker, with a character (a line break included) after
\* the closing marker, or with markers in its middle, is a decode failure:
\* null is returned and the diagnostic carries the text.
C21_OnlyAtStartAndEnd ==
  \A c \in Calls : \A j \in ValidInners :
    (Decoded(c) /\ response[c].text.s \in Misplaced(j))
      => /\ outcome[c] = "returned"
         /\ value[c] = Null
         /\ console = <<Diagnostic("SyntaxError", response[c].text)>>

C21_Witness ==
  /\ Decoded(1)
  /\ response[1].text = Str(FenceOpen \o <<"[", "1", "]">> \o FenceClose \o <<NL>>)
  /\ value[1] = Null
  /\ Len(console) = 1

\* JSON.stringify(v): the text of a value, without blanks
DigitChar(d) == CHOOSE ch \in Digits : DigitVal(ch) = d
RECURSIVE NatText(_)
NatText(n) == IF n < 10 THEN <<DigitChar(n)>> ELSE NatText(n \div 10) \o <<DigitChar(n % 10)>>
RECURSIVE Stringify(_)
Stringify(v) ==
  CASE v.t = "null" -> Chars("null")
    [] v.t = "true" -> Chars("true")
    [] v.t = "false" -> Chars("false")
    [] v.t = "string" -> Quoted(v.s)
    [] v.t = "number" -> IF v.n < 0 THEN <<"-">> \o NatText(0 - v.n) ELSE NatText(v.n)
    [] v.t = "array" -> ArrayTextOf([m \in 1..Len(v.items) |-> Stringify(v.items[m])])
    [] v.t = "object" ->
         <<"{">> \o
         JoinElements([m \in 1..(Len(v.items) \div 2) |->
                        Stringify(v.items[2 * m - 1]) \o <<":">> \o Stringify(v.items[2 * m])])
         \o <<"}">>

DecodableInners == ValidInners \cup CountedArrayTexts
UndecodableInners == InvalidInners \cup ProseInners

\* C23: a diagnostic is logged exactly when the decode fails.  A response text
\* that is JSON, bare or between the markers, logs nothing; one that is not
\* JSON, or is absent, logs one diagnostic, which carries the parse error and
\* the response text as received, markers included.
C23_DiagnosticIffFailure ==
  \A c \in Calls :
    /\ \A j \in DecodableInners :
         (Decoded(c) /\ response[c].text \in {Str(j), Str(FenceOpen \o j \o FenceClose)})
           => console = <<>>
    /\ \A j \in UndecodableInners :
         (Decoded(c) /\ response[c].text \in {Str(j), Str(FenceOpen \o j \o FenceClose)})
           => console = <<Diagnostic("SyntaxError", response[c].text)>>
    /\ (Decoded(c) /\ response[c].text = Undefined)
         => console = <<Diagnostic("TypeError", Undefined)>>

C23_Witness ==
  /\ Decoded(1)
  /\ response[1].text = Str(FenceOpen \o <<"[", "1", ",">> \o FenceClose)
  /\ value[1] = Null
  /\ console = <<Diagnostic("SyntaxError", Str(FenceOpen \o <<"[", "1", ",">> \o FenceClose))>>

\* C24: when the response of a generator has no text or the empty text, the
\* generator returns null and raises nothing, and a diagnostic carrying that
\* text is logged, as for any decode failure.
C24_NoTextIsNull ==
  \A c \in Calls :
    (Decoded(c) /\ response[c].text \in {Undefined, Str(<<>>)})
      => /\ outcome[c] = "returned"
         /\ value[c] = Null
         /\ error[c] = ""
         /\ \E m \in 1..Len(console) : console[m].original = response[c].text

C24_Witness ==
  \E c \in Calls :
    /\ Decoded(c)
    /\ op[c] = "generateUserProfile"
    /\ response[c].text = Undefined
    /\ outcome[c] = "returned"
    /\ value[c] = Null

\* C25: a generator returns null only when the decode failed: whenever a
\* completed invocation returned null, a diagnostic carrying its response
\* text was logged, also when the text is the JSON literal null.
C25_NullOnlyOnFailure ==
  \A c \in Calls :
    (Decoded(c) /\ outcome[c] = "returned" /\ value[c] = Null)
      => \E m \in 1..Len(console) : console[m].original = response[c].text

\* the parts of the payload invocation c sent first
SentParts(c) == sent[c][1].parts
TextIndexes(parts) == {m \in 1..Len(parts) : parts[m].text # Undefined}

\* C26: every image-edit invocation sends one request, which carries exactly
\* one image part, the bytes and the mime type the caller passed, and exactly
\* one text part, the prompt the caller passed, and asks for the response
\* modality IMAGE alone.
C26_EditRequestContents ==
  \A c \in Calls :
    (pc[c] # "idle" /\ op[c] = "editImage")
      => /\ Len(sent[c]) = 1
         /\ Len(SentParts(c)) = 2
         /\ \E m \in 1..2 :
              /\ InlineIndexes(SentParts(c)) = {m}
              /\ SentParts(c)[m].inlineData.data = Str(<<args[c].imageBase64>>)
              /\ SentParts(c)[m].inlineData.mimeType = Str(<<args[c].mimeType>>)
         /\ \E m \in 1..2 :
              /\ TextIndexes(SentParts(c)) = {m}
              /\ SentParts(c)[m].text = Str(<<args[c].prompt>>)
         /\ reqs[c][1].responseModalities = <<"IMAGE">>

C26_Witness ==
  \E c \in Calls :
    /\ Done(c)
    /\ op[c] = "editImage"
    /\ args[c].imageBase64 = "BBBB"
    /\ args[c].prompt = ""
    /\ SentParts(c) = <<InlinePart(<<"BBBB">>, <<"image/jpeg">>), TextPart(<<"">>)>>

\* the step in which invocation c is made
Starts(c) == pc[c] = "idle" /\ pc'[c] = "awaiting"
\* the step is a chat send on session x
SendsOn(c, x) == Starts(c) /\ op'[c] = "sendChatFulfillment" /\ args'[c].chat = x

\* C27: the step in which a chat send is invoked adds exactly one sendMessage
\* call, with the message the caller passed, to the session the caller passed;
\* no other step of any invocation, the completion of the send included,
\* makes a call on any session.
C27_OneSendPerChatCall ==
  [][\A x \in Sessions :
       /\ \A c \in Calls :
            SendsOn(c, x)
              => sessions'[x] =
                   Append(sessions[x], [message |-> args'[c].message, method |-> "sendMessage"])
       /\ (~ \E c \in Calls : SendsOn(c, x)) => sessions'[x] = sessions[x]]_vars

C27_Witness ==
  /\ Done(1)
  /\ Done(2)
  /\ op[1] = "sendChatFulfillment"
  /\ op[2] = "sendChatFulfillment"
  /\ args[1].chat = "s2"
  /\ args[2].chat = "s2"
  /\ sessions["s1"] = <<>>
  /\ sessions["s2"] = <<SendMessage("bye"), SendMessage("hello")>>
  /\ value[1] = Str(FenceOpen \o <<"[", "1", "]">> \o FenceClose)

\* C28: an invocation sends its request, then receives the outcome of the
\* remote call, then decodes or extracts, then returns.  Nothing is decoded,
\* logged or returned in the step that sends the request; an invocation
\* completes only from its await, its request sent; the console changes only
\* when a decoding operation completes on a fulfilled remote call; and when the
\* remote call fails the invocation raises, logs nothing and returns no null.
C28_StepsInOrder ==
  [][/\ \A c \in Calls :
          /\ Starts(c)
               => /\ console' = console
                  /\ outcome'[c] = "pending"
                  /\ value'[c] = Undefined
                  /\ reqs'[c] = <<RequestOf(op'[c])>>
          /\ (pc[c] # "done" /\ pc'[c] = "done")
               => pc[c] = "awaiting" /\ Len(reqs[c]) = 1
          /\ (Completes(c) /\ response'[c].status = "rejected")
               => /\ console' = console
                  /\ outcome'[c] = "threw"
                  /\ value'[c] # Null
     /\ console' # console
          => \E d \in Calls :
               /\ Completes(d)
               /\ op[d] \in DecoderOps
               /\ response'[d].status = "fulfilled"]_vars

C28_Witness ==
  \E c, d \in Calls :
    /\ Done(c)
    /\ op[c] = "generateVaultNodes"
    /\ response[c].status = "rejected"
    /\ outcome[c] = "threw"
    /\ value[c] = Undefined
    /\ console = <<>>
    /\ Extracted(d)
    /\ value[d] = Str(<<"A">>)

\* C29: the image-edit extraction looks at the first candidate alone.  When
\* the response holds several candidates, the result is the payload of the
\* first inline-binary part of the first candidate, and null when the first
\* candidate has none, whatever the later candidates hold.
C29_FirstCandidateOnly ==
  \A c \in Calls :
    (Extracted(c) /\ Len(response[c].candidates) > 1)
      => /\ outcome[c] = "returned"
         /\ value[c] = IF InlineIndexes(PartsOf(c)) = {} THEN Null
                       ELSE FirstInline(PartsOf(c)).data

C29_Witness ==
  /\ Extracted(1)
  /\ response[1].candidates =
       <<Candidate(TRUE, TRUE, <<TextPart(<<"Here is the edited image">>)>>),
         Candidate(TRUE, TRUE, <<InlinePart(<<"B">>, <<"image/jpeg">>)>>)>>
  /\ outcome[1] = "returned"
  /\ value[1] = Null

\* C30: provided the remote call completes, every invocation in flight
\* finishes, having returned a value or null or raised the failure; and the
\* part loop of the image edit looks at no more parts than the list holds.
C30_EveryInvocationFinishes ==
  /\ \A c \in Calls :
       (pc[c] = "awaiting") ~> (Done(c) /\ outcome[c] \in {"returned", "threw"})
  /\ [](\A c \in Calls :
          Extracted(c) => ForOfParts(PartsOf(c), 1).visited <= Len(PartsOf(c)))

C30_Witness ==
  /\ Done(1)
  /\ Done(2)
  /\ op[1] = "editImage"
  /\ Extracted(1)
  /\ value[1] = Str(<<"A">>)
  /\ op[2] = "generateZohoIntegrations"
  /\ outcome[2] = "threw"

====
